---- MODULE Spec2Model ----
(***************************************************************************)
(* actix-token-middleware: the Jwt validator (src/data.rs) and the JwtAuth  *)
(* middleware that shares it (src/middleware/jwtauth.rs).                   *)
(*                                                                         *)
(* SpecJwt applies the pure functions check_jwt, check_claims and           *)
(* validate_jwt to inputs drawn from bounded sets.  Spec is the running     *)
(* service: key refreshes (set_keys), middleware instances created by the   *)
(* factory and requests going through them.                                 *)
(***************************************************************************)
EXTENDS Integers, Sequences, FiniteSets, TLC

VARIABLES
    heap,   \* the Jwt structs alive, by address: [jwks, keys, claims]
    now,    \* the clock jsonwebtoken reads (seconds)
    jwt,    \* SpecJwt: the token handed to the function under test
    pc,     \* SpecJwt: "start", or the function that has been applied
    ret,    \* SpecJwt: what that function returned
    fetch,  \* Spec: set_keys' position: "idle", or "pending" at the await of Jwks::get
    auth,   \* Spec: the JwtAuth factory: None, or Some(the address in its Rc<Jwt>)
    mw,     \* Spec: the JwtAuthMiddleware instances, each the address in its Rc<Jwt>
    obs,    \* Spec: the last verification: who made it, the keys it scanned, the outcome
    hist    \* Spec: per Jwt, the complete key collections it was given and the last of them

vars == <<heap, now, jwt, pc, ret, fetch, auth, mw, obs, hist>>

(***************************************************************************)
(* Bounds                                                                  *)
(***************************************************************************)
MaxNow == 2
MaxInstances == 2

(***************************************************************************)
(* Option<T>: None is <<>>, Some(x) is <<x>>                                *)
(***************************************************************************)
None == <<>>
Some(x) == <<x>>
is_some(o) == Len(o) = 1
unwrap(o) == o[1]

(***************************************************************************)
(* serde_json::Value, as far as claims use it                               *)
(***************************************************************************)
StrV(s) == [t |-> "String", s |-> s, n |-> 0, b |-> FALSE]
NumV(n) == [t |-> "Number", s |-> "", n |-> n, b |-> FALSE]
BoolV(b) == [t |-> "Bool", s |-> "", n |-> 0, b |-> b]

\* Value's Display (tok_val.to_string()): the compact JSON text of the value
to_string(v) ==
    CASE v.t = "String" -> "\"" \o v.s \o "\""
      [] v.t = "Number" -> ToString(v.n)
      [] v.t = "Bool" -> IF v.b THEN "true" ELSE "false"

\* impl PartialEq<String> for Value: equal only when the value is a JSON string
eq_str(v, s) == v.t = "String" /\ v.s = s

(***************************************************************************)
(* Algorithms and keys                                                     *)
(***************************************************************************)
\* jsonwebtoken::Algorithm values used in token headers
Algorithms == {"HS256", "RS256", "RS384"}

\* jsonwebtoken::Algorithm::family
family(alg) == IF alg = "HS256" THEN "Hmac" ELSE IF alg \in {"RS256", "RS384"} THEN "Rsa" ELSE "Ec"

\* jsonwebkey::JsonWebKey: key_id and algorithm are Option fields
Key(kid, alg, kty, mat) == [key_id |-> kid, algorithm |-> alg, kty |-> kty, mat |-> mat]

\* Key::to_decoding_key: the key material with the family of the key type
to_decoding_key(key) ==
    [family |-> CASE key.kty = "RSA" -> "Rsa" [] key.kty = "oct" -> "Hmac" [] OTHER -> "Ec",
     mat |-> key.mat]

\* the JWKS documents the endpoint may serve (the parsed keys of each)
KeysA == <<Key(Some("k1"), Some("RS256"), "RSA", "m1"), Key(Some("k2"), Some("HS256"), "oct", "m2")>>
KeysB == <<Key(Some("k1"), None, "RSA", "m1"), Key(Some("k1"), Some("RS256"), "RSA", "m2")>>
KeysC == <<Key(None, Some("RS256"), "RSA", "m1"), Key(Some("k2"), Some("RS256"), "RSA", "m2")>>
KeysD == <<Key(Some("k2"), Some("HS256"), "RSA", "m2"), Key(Some("K1"), Some("RS256"), "RSA", "m1")>>
KeySets == {KeysA, KeysB, KeysC, KeysD}

\* the claim constraints a Jwt may be configured with (Vec<(String, String)>)
ClaimSets ==
    { <<>>,
      << <<"job_id", "8">> >>,
      << <<"ref_protected", "true">>, <<"job_id", "8">> >>,
      << <<"job_id", "8">>, <<"ref_protected", "true">> >> }

JwksUrl == "https://issuer/-/jwks"

(***************************************************************************)
(* Tokens                                                                  *)
(***************************************************************************)
ClaimValues ==
    [exp |-> {NumV(1), NumV(2)},
     job_id |-> {StrV("8"), NumV(8)},
     ref_protected |-> {StrV("true"), BoolV(TRUE), StrV("false")}]

Payloads ==
    UNION { { p \in [D -> UNION {ClaimValues[n] : n \in DOMAIN ClaimValues}] :
                \A n \in D : p[n] \in ClaimValues[n] } : D \in SUBSET DOMAIN ClaimValues }

EmptyPayload == [n \in {} |-> NumV(0)]

\* a signature names the key material and the algorithm it was made with;
\* "forged" is material no key holds (random or tampered signature bytes)
Sig(mat, alg) == [mat |-> mat, alg |-> alg]

\* a token whose header cannot be decoded
MalformedToken ==
    [wf |-> FALSE, alg |-> "HS256", kid |-> None, payload |-> EmptyPayload,
     sig |-> Sig("forged", "HS256")]

WellFormedTokens ==
    { [wf |-> TRUE, alg |-> a, kid |-> k, payload |-> p, sig |-> Sig(m, a)] :
        a \in Algorithms, k \in {None, Some("k1"), Some("k2"), Some("kx")},
        p \in Payloads, m \in {"m1", "m2", "forged"} }

Tokens == WellFormedTokens \cup {MalformedToken}

(***************************************************************************)
(* Results: Ok(value), Err(Error::...), or a panic of the calling thread   *)
(***************************************************************************)
Ok(claims) == [kind |-> "Ok", err |-> "", a |-> "", b |-> "", c |-> "", claims |-> claims]
Err(e, a, b, c) == [kind |-> "Err", err |-> e, a |-> a, b |-> b, c |-> c, claims |-> EmptyPayload]
Panic == [kind |-> "Panic", err |-> "", a |-> "", b |-> "", c |-> "", claims |-> EmptyPayload]
NoRet == [kind |-> "None", err |-> "", a |-> "", b |-> "", c |-> "", claims |-> EmptyPayload]

(***************************************************************************)
(* jsonwebtoken, as check_jwt calls it                                      *)
(***************************************************************************)
\* jwt::decode_header: the header of a token whose header segment decodes
decode_header(t) ==
    IF t.wf THEN Ok(EmptyPayload) ELSE Err("JwtHeaderError", "InvalidToken", "", "")

\* crypto::verify: the signature was made with this key material under alg
verify(sig, dkey, alg) == sig.mat = dkey.mat /\ sig.alg = alg

\* validation::validate with validate_nbf off and no iss/sub/aud set (the
\* defaults): only exp is looked at, and a missing exp counts as expired
validate(claims, validation) ==
    IF validation.validate_exp
    THEN IF "exp" \in DOMAIN claims
         THEN IF claims["exp"].n < now - validation.leeway
              THEN Err("JwtError", "ExpiredSignature", "", "")
              ELSE Ok(claims)
         ELSE Err("JwtError", "ExpiredSignature", "", "")
    ELSE Ok(claims)

\* jwt::decode::<Value>: the key must be of the family of every allowed
\* algorithm, the header's alg must be an allowed one, the signature must
\* verify under the header's alg, and the claims must validate
decode(t, dkey, validation) ==
    IF \E i \in DOMAIN validation.algorithms : dkey.family # family(validation.algorithms[i])
    THEN Err("JwtError", "InvalidAlgorithm", "", "")
    ELSE IF ~t.wf
    THEN Err("JwtError", "InvalidToken", "", "")
    ELSE IF ~(\E i \in DOMAIN validation.algorithms : validation.algorithms[i] = t.alg)
    THEN Err("JwtError", "InvalidAlgorithm", "", "")
    ELSE IF ~verify(t.sig, dkey, t.alg)
    THEN Err("JwtError", "InvalidSignature", "", "")
    ELSE validate(t.payload, validation)

(***************************************************************************)
(* Jwt (src/data.rs)                                                       *)
(***************************************************************************)
Jwt(url, ks, cs) == [jwks |-> url, keys |-> ks, claims |-> cs]

\* get_key falling back on the first key of the set when no key_id matches
get_key_or_first(self, kid) ==
    LET hits == { i \in DOMAIN self.keys :
                    is_some(self.keys[i].key_id) /\ unwrap(self.keys[i].key_id) = kid }
    IN  IF hits = {} THEN Some(self.keys[1])
        ELSE Some(self.keys[CHOOSE i \in hits : \A j \in hits : i <= j])

\* get_key returning the last key with the identifier instead of the first
get_key_last(self, kid) ==
    LET hits == { i \in DOMAIN self.keys :
                    is_some(self.keys[i].key_id) /\ unwrap(self.keys[i].key_id) = kid }
    IN  IF hits = {} THEN None
        ELSE Some(self.keys[CHOOSE i \in hits : \A j \in hits : i >= j])

\* Jwt::get_key: the first key whose key_id is Some(kid); None if there is none
get_key(self, kid) ==
    LET hits == { i \in DOMAIN self.keys :
                    is_some(self.keys[i].key_id) /\ unwrap(self.keys[i].key_id) = kid }
    IN  IF hits = {} THEN None
        ELSE Some(self.keys[CHOOSE i \in hits : \A j \in hits : i <= j])

\* the algorithm taken from the token header instead of the key
key_alg_from_header(key, t) == Some(t.alg)

\* line 74: the algorithm is the key's; None when the unwrap() would panic
key_alg(key, t) == key.algorithm

\* the commented-out override in force: expiry is not validated
Validation_no_exp(alg) == [algorithms |-> <<alg>>, validate_exp |-> FALSE, leeway |-> 0]

\* lines 75-79: only that algorithm is allowed, the rest are the defaults
\* (validate_exp: true, leeway: 0); the override of validate_exp is commented out
Validation(alg) == [algorithms |-> <<alg>>, validate_exp |-> TRUE, leeway |-> 0]

\* Jwt::check_jwt
check_jwt(self, t) ==
    LET header == decode_header(t) IN
    IF header.kind # "Ok" THEN header
    ELSE IF ~is_some(t.kid) THEN Err("NoKid", "", "", "")
    ELSE LET kid == unwrap(t.kid)
             key == get_key(self, kid) IN
         IF ~is_some(key) THEN Err("KeyNotFound", kid, "", "")
         ELSE LET alg == key_alg(unwrap(key), t) IN
              IF ~is_some(alg) THEN Panic
              ELSE decode(t, to_decoding_key(unwrap(key)), Validation(unwrap(alg)))

\* the constraint compared with the JSON text of the value
claim_valid_rendered(tok_val, val) == to_string(tok_val) = val

\* the test of one constraint: tok_val == val
claim_valid(tok_val, val) == eq_str(tok_val, val)

\* the closure mapped over self.claims: the outcome for one (key, val)
check_one(claims, key, val) ==
    IF key \notin DOMAIN claims
    THEN Err("ClaimNotFound", key, "", "")
    ELSE IF claim_valid(claims[key], val)
         THEN Ok(EmptyPayload)
         ELSE Err("Claim", key, val, to_string(claims[key]))

\* the loop reporting the last failing constraint instead of the first
RECURSIVE check_from_last(_, _, _)
check_from_last(cs, claims, i) ==
    IF i > Len(cs) THEN Ok(EmptyPayload)
    ELSE LET valid == check_one(claims, cs[i][1], cs[i][2])
             rest == check_from_last(cs, claims, i + 1) IN
         IF rest.kind # "Ok" THEN rest ELSE valid

\* the for loop over the mapped constraints: `valid?` returns the first error
RECURSIVE check_from(_, _, _)
check_from(cs, claims, i) ==
    IF i > Len(cs) THEN Ok(EmptyPayload)
    ELSE LET valid == check_one(claims, cs[i][1], cs[i][2]) IN
         IF valid.kind # "Ok" THEN valid ELSE check_from(cs, claims, i + 1)

\* Jwt::check_claims, on the claims of a TokenData
check_claims(self, claims) == check_from(self.claims, claims, 1)

\* validate_jwt looking at the claims of the token before verifying it
validate_jwt_claims_first(self, t) ==
    LET valid == check_from(self.claims, t.payload, 1) IN
    IF valid.kind # "Ok" THEN valid
    ELSE LET tokendata == check_jwt(self, t) IN
         IF tokendata.kind # "Ok" THEN tokendata ELSE Ok(EmptyPayload)

\* Jwt::validate_jwt
validate_jwt(self, t) ==
    LET tokendata == check_jwt(self, t) IN
    IF tokendata.kind # "Ok" THEN tokendata
    ELSE check_from(self.claims, tokendata.claims, 1)

(***************************************************************************)
(* SpecJwt: the functions applied to every input of the bounded sets       *)
(***************************************************************************)
InitJwt ==
    /\ heap \in { <<Jwt(JwksUrl, ks, cs)>> : ks \in KeySets, cs \in ClaimSets }
    /\ now \in 1..MaxNow
    /\ jwt \in Tokens
    /\ pc = "start"
    /\ ret = NoRet
    /\ fetch = "idle"
    /\ auth = None
    /\ mw = <<>>
    /\ obs = None
    /\ hist = <<>>

CallCheckJwt ==
    /\ pc = "start"
    /\ pc' = "check_jwt"
    /\ ret' = check_jwt(heap[1], jwt)
    /\ UNCHANGED <<heap, now, jwt, fetch, auth, mw, obs, hist>>

CallCheckClaims ==
    /\ pc = "start"
    /\ jwt.wf
    /\ pc' = "check_claims"
    /\ ret' = check_claims(heap[1], jwt.payload)
    /\ UNCHANGED <<heap, now, jwt, fetch, auth, mw, obs, hist>>

CallValidateJwt ==
    /\ pc = "start"
    /\ pc' = "validate_jwt"
    /\ ret' = validate_jwt(heap[1], jwt)
    /\ UNCHANGED <<heap, now, jwt, fetch, auth, mw, obs, hist>>

\* get_key with the kid of the token's header; ret holds the Option<&JsonWebKey>
CallGetKey ==
    /\ pc = "start"
    /\ jwt.wf /\ is_some(jwt.kid)
    /\ pc' = "get_key"
    /\ ret' = [kind |-> "Option", key |-> get_key(heap[1], unwrap(jwt.kid))]
    /\ UNCHANGED <<heap, now, jwt, fetch, auth, mw, obs, hist>>

NextJwt == CallCheckJwt \/ CallCheckClaims \/ CallValidateJwt \/ CallGetKey

SpecJwt == InitJwt /\ [][NextJwt]_vars

(***************************************************************************)
(* The service: Jwt::set_keys and the JwtAuth middleware                   *)
(***************************************************************************)
\* the errors Jwks::get returns (data.rs:112-123)
FetchErrors == {"GetError", "BodyResponse", "DecodeError", "DeserError"}

\* set_keys applied to a copy of the struct: the struct itself keeps its keys
set_keys_on_copy(h, a, ks) == Append(h, [h[a] EXCEPT !.keys = ks])

\* set_keys replacing only the head of the collection
set_keys_torn(h, a, ks) == [h EXCEPT ![a].keys = <<ks[1]>> \o Tail(@)]

\* set_keys building the struct anew around the fetched keys (Jwt derives
\* Default): the url and the constraints are lost
set_keys_rebuild(h, a, ks) == [h EXCEPT ![a] = [jwks |-> "", keys |-> ks, claims |-> <<>>]]

\* line 55, self.keys = keys.keys: the collection is replaced whole, in place
set_keys_install(h, a, ks) == [h EXCEPT ![a].keys = ks]

\* thiserror's Display of an Error (result.rs)
Display(e) ==
    CASE e.err = "JwtError" -> "Token error: " \o e.a
      [] e.err = "JwtHeaderError" -> "Token header error: " \o e.a
      [] e.err = "NoKid" -> "kid attibute must be specified in the jwt header"
      [] e.err = "KeyNotFound" -> "Unknown key id " \o e.a
      [] e.err = "ClaimNotFound" -> "Claim " \o e.a \o " is not in the token"
      [] e.err = "Claim" -> "Expected claim " \o e.a \o " == " \o e.b \o " but found " \o e.c
      [] OTHER -> "Failed to get JKWS"

\* header values and token texts are sequences of characters; the compact
\* serialization of a token is one symbol (it holds no "Bearer ")
Bearer == <<"B", "e", "a", "r", "e", "r", " ">>

TokenTable ==
    [tokA |-> [wf |-> TRUE, alg |-> "RS256", kid |-> Some("k1"), sig |-> Sig("m1", "RS256"),
               payload |-> [exp |-> NumV(2), job_id |-> StrV("8")]],
     tokC |-> [wf |-> TRUE, alg |-> "RS256", kid |-> Some("k2"), sig |-> Sig("m2", "RS256"),
               payload |-> [exp |-> NumV(2), job_id |-> StrV("8")]],
     tokX |-> [wf |-> TRUE, alg |-> "RS256", kid |-> Some("k1"), sig |-> Sig("m1", "RS256"),
               payload |-> [exp |-> NumV(1), job_id |-> NumV(8)]]]

\* the token a text is the serialization of; any other text does not decode
ParseToken(text) ==
    IF Len(text) = 1 /\ text[1] \in DOMAIN TokenTable THEN TokenTable[text[1]] ELSE MalformedToken

\* the Authorization headers of the requests: none, one that is not visible
\* ASCII (to_str fails), and header values
NoHeader == [present |-> FALSE, ascii |-> FALSE, value |-> <<>>]
OpaqueHeader == [present |-> TRUE, ascii |-> FALSE, value |-> <<>>]
Header(v) == [present |-> TRUE, ascii |-> TRUE, value |-> v]
Headers ==
    {NoHeader, OpaqueHeader}
    \cup { Header(Bearer \o <<t>>) : t \in DOMAIN TokenTable }
    \cup { Header(<<"tokA">>), Header(<<"x">> \o Bearer \o <<"tokA">>),
           Header(<<"b", "e", "a", "r", "e", "r", " ", "tokA">>) }

\* str::find: the 0-based position of the first occurrence of pat, or None
find(text, pat) ==
    LET at == { i \in 0..(Len(text) - Len(pat)) : SubSeq(text, i + 1, i + Len(pat)) = pat }
    IN  IF at = {} THEN None ELSE Some(CHOOSE i \in at : \A j \in at : i <= j)

\* lines 68-72: the text handed to validate_jwt, if any
bearer_token(h) ==
    IF ~h.present \/ ~h.ascii THEN None
    ELSE IF find(h.value, Bearer) = None THEN None
    ELSE Some(SubSeq(h.value, 8, Len(h.value)))

\* JwtAuthMiddleware::call: forward to the next service, or an Unauthorized
\* error with its reason; a panic of validate_jwt unwinds through call
call(self, h) ==
    LET token == bearer_token(h) IN
    IF is_some(token)
    THEN LET r == validate_jwt(self, ParseToken(unwrap(token))) IN
         CASE r.kind = "Ok" -> [kind |-> "forward", reason |-> "", token |-> token]
           [] r.kind = "Err" ->
                [kind |-> "unauthorized", reason |-> "Not authorized - " \o Display(r), token |-> token]
           [] OTHER -> [kind |-> "panic", reason |-> "", token |-> token]
    ELSE [kind |-> "unauthorized", reason |-> "Not authorized - Missing bearer token",
          token |-> None]

\* the Jwt in a new middleware instance made a copy of the factory's
new_transform_copy(h, rc) == [heap |-> Append(h, h[rc]), ptr |-> Len(h) + 1]

\* JwtAuth::new_transform: the instance gets a clone of the Rc, not of the Jwt
new_transform(h, rc) == [heap |-> h, ptr |-> rc]

Observation(by, a, h, out) ==
    Some([by |-> by, addr |-> a, keys |-> heap[a].keys, at |-> now, hdr |-> h, out |-> out])

\* the application built a Jwt with Jwt::new and holds it at address 1
Init ==
    /\ heap \in { <<Jwt(JwksUrl, ks, << <<"job_id", "8">> >>)>> : ks \in KeySets }
    /\ hist = <<[all |-> {heap[1].keys}, last |-> heap[1].keys]>>
    /\ now = 1
    /\ jwt = MalformedToken
    /\ pc = "start"
    /\ ret = NoRet
    /\ fetch = "idle"
    /\ auth = None
    /\ mw = <<>>
    /\ obs = None

\* the application owns the Jwt at address 1 until JwtAuth::new takes it
AppOwns == auth # Some(1)

\* Jwt::set_keys up to the await of Jwks::get; &mut self keeps every other
\* use of the struct out until the future completes
SetKeysStart ==
    /\ AppOwns /\ fetch = "idle"
    /\ fetch' = "pending"
    /\ UNCHANGED <<heap, now, jwt, pc, ret, auth, mw, obs, hist>>

\* Jwks::get returned keys: line 55, then Ok(())
SetKeysOk ==
    /\ fetch = "pending"
    /\ \E ks \in KeySets :
          /\ heap' = set_keys_install(heap, 1, ks)
          /\ hist' = [hist EXCEPT ![1] = [all |-> @.all \cup {ks}, last |-> ks]]
    /\ fetch' = "idle"
    /\ ret' = Ok(EmptyPayload)
    /\ UNCHANGED <<now, jwt, pc, auth, mw, obs>>

\* Jwks::get failed: `?` returns the error, self is not touched
SetKeysErr ==
    /\ fetch = "pending"
    /\ \E e \in FetchErrors : ret' = Err(e, "", "", "")
    /\ fetch' = "idle"
    /\ UNCHANGED <<heap, now, jwt, pc, auth, mw, obs, hist>>

\* the application calls validate_jwt on the Jwt it owns
AppValidate ==
    /\ AppOwns /\ fetch = "idle"
    /\ \E t \in DOMAIN TokenTable :
          LET r == validate_jwt(heap[1], TokenTable[t]) IN
          obs' = Observation(0, 1, NoHeader,
                    [kind |-> r.kind, reason |-> IF r.kind = "Err" THEN Display(r) ELSE "",
                     token |-> Some(<<t>>)])
    /\ UNCHANGED <<heap, now, jwt, pc, ret, fetch, auth, mw, hist>>

\* JwtAuth::new(jwt): the Jwt moves into the factory's Rc
JwtAuthNew ==
    /\ auth = None /\ fetch = "idle"
    /\ auth' = Some(1)
    /\ UNCHANGED <<heap, now, jwt, pc, ret, fetch, mw, obs, hist>>

\* JwtAuth::new(jwt.clone()): the factory gets a copy (Jwt derives Clone), the
\* application keeps its own struct
JwtAuthNewClone ==
    /\ auth = None /\ fetch = "idle"
    /\ heap' = Append(heap, heap[1])
    /\ hist' = Append(hist, [all |-> {heap[1].keys}, last |-> heap[1].keys])
    /\ auth' = Some(Len(heap) + 1)
    /\ UNCHANGED <<now, jwt, pc, ret, fetch, mw, obs>>

\* JwtAuth::new_transform: one more middleware instance
NewTransform ==
    /\ is_some(auth) /\ Len(mw) < MaxInstances
    /\ LET r == new_transform(heap, unwrap(auth)) IN
          /\ heap' = r.heap
          /\ mw' = Append(mw, r.ptr)
          /\ hist' = IF Len(r.heap) > Len(heap)
                     THEN Append(hist, [all |-> {hist[unwrap(auth)].last},
                                        last |-> hist[unwrap(auth)].last])
                     ELSE hist
    /\ UNCHANGED <<now, jwt, pc, ret, fetch, auth, obs>>

\* JwtAuthMiddleware::call on a request
Call ==
    /\ \E i \in DOMAIN mw, h \in Headers :
          obs' = Observation(i, mw[i], h, call(heap[mw[i]], h))
    /\ UNCHANGED <<heap, now, jwt, pc, ret, fetch, auth, mw, hist>>

\* time passes
Tick ==
    /\ now < MaxNow
    /\ now' = now + 1
    /\ UNCHANGED <<heap, jwt, pc, ret, fetch, auth, mw, obs, hist>>

Next ==
    \/ SetKeysStart \/ SetKeysOk \/ SetKeysErr
    \/ AppValidate \/ JwtAuthNew \/ JwtAuthNewClone \/ NewTransform \/ Call \/ Tick

Spec == Init /\ [][Next]_vars

(***************************************************************************)
(* Properties of check_jwt, check_claims and validate_jwt (SpecJwt)        *)
(***************************************************************************)
Self == heap[1]
Verifying == pc \in {"check_jwt", "validate_jwt"}

\* the positions of the keys whose identifier is Some(kid)
KidKeys(kid) == { i \in DOMAIN Self.keys : Self.keys[i].key_id = Some(kid) }
HasKid == jwt.wf /\ jwt.kid # None
Matched == HasKid /\ KidKeys(unwrap(jwt.kid)) # {}
\* the key the token's kid selects: the first of them in list order
MatchedKey == Self.keys[CHOOSE i \in KidKeys(unwrap(jwt.kid)) : \A j \in KidKeys(unwrap(jwt.kid)) : i <= j]

\* the matched key declares the header's algorithm, one its key type supports
AlgAgrees ==
    /\ Matched
    /\ MatchedKey.algorithm = Some(jwt.alg)
    /\ to_decoding_key(MatchedKey).family = family(jwt.alg)
\* the signature was made with the matched key under that algorithm
SignedByMatched == AlgAgrees /\ jwt.sig = Sig(MatchedKey.mat, jwt.alg)
Unexpired == "exp" \in DOMAIN jwt.payload /\ jwt.payload["exp"].n >= now
Expired == "exp" \in DOMAIN jwt.payload /\ jwt.payload["exp"].n < now

Constraint(i) == [name |-> Self.claims[i][1], val |-> Self.claims[i][2]]
Absent(i) == Constraint(i).name \notin DOMAIN jwt.payload
Differs(i) == ~Absent(i) /\ jwt.payload[Constraint(i).name] # StrV(Constraint(i).val)
Unsatisfied == { i \in DOMAIN Self.claims : Absent(i) \/ Differs(i) }
\* every constrained claim is in the payload as the JSON string expected
ClaimsAsExpected == Unsatisfied = {}

C2_AlgorithmFromKey ==
    Verifying =>
        /\ (Matched /\ MatchedKey.algorithm # None /\ MatchedKey.algorithm # Some(jwt.alg))
              => ret = Err("JwtError", "InvalidAlgorithm", "", "")
        /\ ret.kind = "Ok" => (Matched /\ MatchedKey.algorithm = Some(jwt.alg))

\* a token signed with the matched key's material under another algorithm of
\* the same family, otherwise valid, is refused
C2_Witness ==
    /\ pc = "check_jwt" /\ Matched
    /\ MatchedKey.algorithm = Some("RS256") /\ jwt.alg = "RS384"
    /\ jwt.sig = Sig(MatchedKey.mat, "RS384") /\ Unexpired
    /\ ret = Err("JwtError", "InvalidAlgorithm", "", "")

\* C3: a token whose kid is the identifier of no key of the set fails with
\* KeyNotFound carrying that kid, whatever its signature and payload are.
C3_UnknownKid ==
    (Verifying /\ HasKid /\ ~Matched) => ret = Err("KeyNotFound", unwrap(jwt.kid), "", "")

\* the kid differs from a key's identifier by case only, the signature is that
\* key's and the token is expired with a constrained claim missing
C3_Witness ==
    /\ pc = "validate_jwt" /\ Self.keys = KeysD /\ jwt.kid = Some("k1")
    /\ jwt.sig = Sig("m1", "RS256") /\ Expired /\ Unsatisfied # {}
    /\ ret = Err("KeyNotFound", "k1", "", "")

\* the token passes check_jwt (signature, algorithm and expiry)
Verified == SignedByMatched /\ Unexpired

FirstUnsatisfied == CHOOSE i \in Unsatisfied : \A j \in Unsatisfied : i <= j

Rendering(v) == IF v.t = "String" THEN v.s ELSE to_string(v)

\* C5: check_claims compares the expected string with the string rendering of
\* the claim value, so a number or boolean claim (8, true) satisfies the
\* constraint whose expected string is its rendering ("8", "true").
C5_RenderedComparison ==
    (pc = "check_claims" /\
     \A i \in DOMAIN Self.claims :
        ~Absent(i) /\ Rendering(jwt.payload[Constraint(i).name]) = Constraint(i).val)
    => ret.kind = "Ok"

\* C6: a token whose exp is in the past is rejected with ExpiredSignature by
\* check_jwt and validate_jwt although its signature verifies under the
\* matched key and whatever its other claims are.
C6_ExpiredRejected ==
    (Verifying /\ SignedByMatched /\ Expired) => ret = Err("JwtError", "ExpiredSignature", "", "")

C6_Witness ==
    /\ pc = "validate_jwt" /\ SignedByMatched /\ Expired
    /\ Len(Self.claims) = 2 /\ ClaimsAsExpected
    /\ ret = Err("JwtError", "ExpiredSignature", "", "")

\* C7: a token whose kid matches a key declaring its algorithm but whose
\* signature was not made with that key fails with InvalidSignature whatever
\* its claims are; and validate_jwt reports ClaimNotFound or Claim only for
\* tokens whose signature verifies.
C7_SignatureBeforeClaims ==
    /\ (Verifying /\ AlgAgrees /\ ~SignedByMatched)
          => ret = Err("JwtError", "InvalidSignature", "", "")
    /\ (pc = "validate_jwt" /\ ~SignedByMatched)
          => (ret.kind # "Ok" /\ ret.err \notin {"ClaimNotFound", "Claim"})

\* a token signed with another key's material, unexpired, missing a
\* constrained claim
C7_Witness ==
    /\ pc = "validate_jwt" /\ AlgAgrees /\ jwt.sig.mat = "m2" /\ MatchedKey.mat = "m1"
    /\ Unexpired /\ Unsatisfied # {}
    /\ ret = Err("JwtError", "InvalidSignature", "", "")

\* C10: when the matched key declares no algorithm check_jwt returns an
\* UnsupportedAlgorithm error value: it does not panic.
C10_NoAlgorithmIsAnError ==
    (pc = "check_jwt" /\ Matched /\ MatchedKey.algorithm = None)
        => (ret.kind = "Err" /\ ret.err = "UnsupportedAlgorithm")

(***************************************************************************)
(* Properties of the service (Spec)                                        *)
(***************************************************************************)
\* C8: no verification call, and no state between the steps of a refresh,
\* sees a partially replaced key collection: a Jwt's keys are always the last
\* complete collection it was given (the one before the refresh until line
\* 55, the fetched one after), and every verification scanned a collection
\* that was given complete.
C8_NoTornKeys ==
    /\ \A a \in DOMAIN hist : heap[a].keys = hist[a].last
    /\ is_some(obs) => obs[1].keys \in hist[obs[1].addr].all

\* the application verified a token of the rotated key against the refreshed
\* collection, and the next refresh is in flight
C8_Witness ==
    /\ is_some(obs) /\ obs[1].by = 0
    /\ KeysA \in hist[1].all /\ obs[1].keys = KeysC
    /\ obs[1].out.token = Some(<<"tokC">>) /\ obs[1].out.kind = "Ok"
    /\ fetch = "pending"

Served == is_some(obs) /\ obs[1].by >= 1 /\ obs[1].at = now /\ heap[obs[1].addr].keys = obs[1].keys
\* what validate_jwt returns for the text the middleware took from the request
Verdict == validate_jwt(heap[obs[1].addr], ParseToken(unwrap(obs[1].out.token)))
Accepted == is_some(obs[1].out.token) /\ Verdict.kind = "Ok"

\* C11: the middleware calls the next service exactly when the request
\* carries a bearer token for which validate_jwt returns Ok, and in every
\* other case it produces an unauthorized error carrying a reason.
C11_ForwardIffValid ==
    Served =>
        /\ obs[1].out.kind = "forward" <=> Accepted
        /\ ~Accepted =>
              /\ obs[1].out.kind = "unauthorized"
              /\ Len(obs[1].out.reason) > Len("Not authorized - ")

\* C11, away from the panic of check_jwt: whenever validate_jwt returns, the
\* request is forwarded exactly when it returned Ok and is refused with a
\* reason otherwise.
C11_UnlessPanic ==
    (Served /\ (is_some(obs[1].out.token) => Verdict.kind # "Panic")) =>
        /\ obs[1].out.kind = "forward" <=> Accepted
        /\ ~Accepted =>
              /\ obs[1].out.kind = "unauthorized"
              /\ Len(obs[1].out.reason) > Len("Not authorized - ")

\* C12: get_key(kid) returns the first key of the list whose identifier is
\* exactly kid, and None when no key has it; a key without an identifier,
\* or with one that differs by case, is never returned.
C12_FirstKeyWithKid ==
    pc = "get_key" =>
        LET kid == unwrap(jwt.kid)
            ks == heap[1].keys
        IN  /\ \A i \in DOMAIN ks :
                  (ks[i].key_id = Some(kid) /\ \A j \in 1..(i - 1) : ks[j].key_id # Some(kid))
                      => ret.key = Some(ks[i])
            /\ (\A i \in DOMAIN ks : ks[i].key_id # Some(kid)) => ret.key = None
            /\ is_some(ret.key) => unwrap(ret.key).key_id = Some(kid)

\* two keys share the identifier and the earlier one is returned
C12_Witness ==
    /\ pc = "get_key" /\ heap[1].keys = KeysB /\ jwt.kid = Some("k1")
    /\ KeysB[2].key_id = Some("k1")
    /\ ret.key = Some(KeysB[1])

\* the identifier is in no key of the list (one key has none, and the other
\* set spells it in another case)
C12_WitnessNone ==
    /\ pc = "get_key" /\ heap[1].keys = KeysD /\ jwt.kid = Some("k1")
    /\ ret.key = None

\* C13: set_keys changes nothing but the key collection of its Jwt. A
\* failed fetch leaves every struct as it was and returns the fetch error; a
\* successful one replaces the keys of that Jwt alone; the url and the
\* constraints are the configured ones after any sequence of refreshes.
C13_SetKeysFrame ==
    /\ [][(fetch = "pending" /\ fetch' = "idle") =>
            /\ Len(heap') = Len(heap)
            /\ \A a \in DOMAIN heap :
                  /\ heap'[a].jwks = heap[a].jwks
                  /\ heap'[a].claims = heap[a].claims
                  /\ a # 1 => heap'[a] = heap[a]
            /\ ret'.kind \in {"Ok", "Err"}
            /\ ret'.kind = "Err" => (heap' = heap /\ ret'.err \in FetchErrors)
            /\ ret'.kind = "Ok" => heap'[1].keys \in KeySets]_vars
    /\ [](\A a \in DOMAIN heap :
            heap[a].jwks = JwksUrl /\ heap[a].claims = << <<"job_id", "8">> >>)

\* a refresh failed after an earlier one had replaced the keys
C13_Witness ==
    /\ fetch = "idle" /\ ret.kind = "Err" /\ ret.err = "DeserError"
    /\ KeysA \in hist[1].all /\ heap[1].keys = KeysC
    /\ heap[1].jwks = JwksUrl /\ heap[1].claims = << <<"job_id", "8">> >>

\* the header value starts with "Bearer "
HasBearerPrefix(h) ==
    h.present /\ h.ascii /\ Len(h.value) >= Len(Bearer)
    /\ SubSeq(h.value, 1, Len(Bearer)) = Bearer

\* C14: the token passed to validate_jwt is exactly the text that follows a
\* leading "Bearer "; a header value that does not start with "Bearer " is
\* refused as carrying no bearer token, without any validation call.
C14_LeadingBearerOnly ==
    (is_some(obs) /\ obs[1].by >= 1) =>
        LET h == obs[1].hdr
            out == obs[1].out
        IN  IF HasBearerPrefix(h)
            THEN out.token = Some(SubSeq(h.value, Len(Bearer) + 1, Len(h.value)))
            ELSE /\ out.token = None
                 /\ out.kind = "unauthorized"
                 /\ out.reason = "Not authorized - Missing bearer token"

====
